---- MODULE Spec2Model ----
(***************************************************************************)
(* A model of src/graph/graph.go.                                          *)
(*                                                                         *)
(* The file holds two independent components:                              *)
(*  - the implicit graph GraphNode (a node that owns its Neighbors list)   *)
(*    with the traversal methods Node, Nodes, From and EdgeBetween         *)
(*    (SpecTraversal);                                                     *)
(*  - the build pipeline ParseJSON, CreateMap, CreateNameToIDMap,          *)
(*    CreateNameToVersionMap, CreateGraph and CreateEdges, which fills a   *)
(*    simple.DirectedGraph from a list of PackageInfo records (SpecBuild). *)
(***************************************************************************)
EXTENDS Integers, Sequences, FiniteSets, TLC

VARIABLES
    \* ---- implicit graph -------------------------------------------------
    Neighbors,      \* GraphNode.Neighbors of every node, by node id
    call,           \* the last method called on the root, with its arguments
    ret,            \* what that call returned
    \* ---- build pipeline -------------------------------------------------
    packagesInfo,   \* the decoded input list ([]PackageInfo)
    m,              \* CreateMap's result: id -> nodeInfo
    nameToID,       \* CreateNameToIDMap's result: "name-version" -> id
    nameToVersion,  \* CreateNameToVersionMap's result: name -> versions
    graphNodes,     \* the node ids of the simple.DirectedGraph
    graphEdges,     \* its edges, as <<from, to>> id pairs
    packageInfo,    \* the record ParseJSON is decoding, not yet appended
    pc,             \* the build pipeline's position: the last stage that ran
    panicValue      \* the value of the panic that ended the build, if any

traversalVars == <<Neighbors, call, ret>>
buildVars == <<packagesInfo, m, nameToID, nameToVersion, graphNodes, graphEdges,
               packageInfo, pc, panicValue>>
vars == <<Neighbors, call, ret,
          packagesInfo, m, nameToID, nameToVersion, graphNodes, graphEdges,
          packageInfo, pc, panicValue>>

(***************************************************************************)
(* Bounds                                                                  *)
(***************************************************************************)
\* GraphNode objects of the implicit graph; their ids are 0..NumNodes-1
NumNodes == 4
\* AddNeighbor calls made while the implicit graph is built
MaxEdges == 4
\* records in the input list
MaxPackages == 2
\* (name, version) entries in the whole input list
MaxPairs == 3
\* dependency constraints in the whole input list
MaxConstraints == 2

(***************************************************************************)
(* The implicit graph: GraphNode                                           *)
(***************************************************************************)
NodeIds == 0 .. (NumNodes - 1)

\* The receiver g of the calls: the root the caller holds.
Root == 0

\* An id that no node carries, to ask for.
UnknownId == NumNodes

QueryIds == NodeIds \cup {UnknownId}

\* The nesting depth of nodes() frames past which the recursion cannot end:
\* nodes() never writes to seen, so a chain of more than NumNodes frames
\* repeats a node with the same seen set, and recurses for ever.
StackLimit == NumNodes

\* NewGraphNode: a node with a nil Neighbors slice.
NewGraphNode == << >>

\* AddNeighbor appends n to g.Neighbors.
AddNeighborTo(nb, g, n) == [nb EXCEPT ![g] = Append(@, n)]

NeighborSet(g) == {Neighbors[g][i] : i \in 1 .. Len(Neighbors[g])}

\* A returned node, slice or edge, or nil.
NilResult == [nil |-> TRUE, nodes |-> << >>, overflow |-> FALSE]
Returned(s) == [nil |-> FALSE, nodes |-> s, overflow |-> FALSE]
StackOverflow == [nil |-> TRUE, nodes |-> << >>, overflow |-> TRUE]

\* ---- Node / Has ----------------------------------------------------------
\* seen is a Go map: the callee's writes are seen by the caller, so every
\* operator that takes seen hands the updated map back with its result.
RECURSIVE Has(_, _, _)
RECURSIVE HasLoop(_, _, _, _)
\* The loop of Has over g.Neighbors, from index i on.
HasLoop(g, i, seen, id) ==
    IF i > Len(Neighbors[g]) THEN [found |-> FALSE, seen |-> seen]
    ELSE LET n == Neighbors[g][i] IN
         IF n \in seen THEN HasLoop(g, i + 1, seen, id)
         ELSE IF n = id THEN [found |-> TRUE, seen |-> seen \cup {n}]
         ELSE LET r == Has(n, seen \cup {n}, id) IN
              IF r.found THEN r ELSE HasLoop(g, i + 1, r.seen, id)

Has(g, seen, id) == HasLoop(g, 1, seen, id)

RECURSIVE NodeLoop(_, _, _, _)
\* The loop of Node over the root's Neighbors.
NodeLoop(g, i, seen, id) ==
    IF i > Len(Neighbors[g]) THEN NilResult
    ELSE LET n == Neighbors[g][i] IN
         IF n = id THEN Returned(<<n>>)
         ELSE LET r == Has(n, seen, id) IN
              IF r.found THEN Returned(<<n>>)     \* return gn
              ELSE NodeLoop(g, i + 1, r.seen, id)

Node(g, id) ==
    IF id = g THEN Returned(<<g>>) ELSE NodeLoop(g, 1, {g}, id)

\* ---- Nodes / nodes -------------------------------------------------------
RECURSIVE nodes(_, _, _, _)
RECURSIVE nodesLoop(_, _, _, _, _)
\* The loop of nodes() over g.Neighbors, from index i on. seen is only read.
nodesLoop(g, i, dst, seen, depth) ==
    IF i > Len(Neighbors[g]) THEN [dst |-> dst, overflow |-> FALSE]
    ELSE LET n == Neighbors[g][i] IN
         IF n \in seen THEN nodesLoop(g, i + 1, dst, seen, depth)
         ELSE LET r == nodes(n, Append(dst, n), seen, depth + 1) IN
              IF r.overflow THEN r ELSE nodesLoop(g, i + 1, r.dst, seen, depth)

\* depth counts the nodes() frames on the stack.
nodes(g, dst, seen, depth) ==
    IF depth > StackLimit THEN [dst |-> dst, overflow |-> TRUE]
    ELSE nodesLoop(g, 1, dst, seen, depth)

RECURSIVE NodesLoop(_, _, _, _)
\* The loop of Nodes over the root's Neighbors.
NodesLoop(g, i, dst, seen) ==
    IF i > Len(Neighbors[g]) THEN Returned(dst)
    ELSE LET n == Neighbors[g][i]
             r == nodes(n, Append(dst, n), seen \cup {n}, 1)
         IN  IF r.overflow THEN StackOverflow
             ELSE NodesLoop(g, i + 1, r.dst, seen \cup {n})

Nodes(g) == NodesLoop(g, 1, <<g>>, {g})

\* ---- From / FindNeighbors ------------------------------------------------
\* A slice result: nil, or a slice that holds at least one node. A node built
\* by NewGraphNode that AddNeighbor was never called on has a nil Neighbors.
NilSlice == << >>

RECURSIVE FindNeighbors(_, _, _)
RECURSIVE FindNeighborsLoop(_, _, _, _)
FindNeighborsLoop(g, i, id, seen) ==
    IF i > Len(Neighbors[g]) THEN [result |-> NilSlice, seen |-> seen]
    ELSE LET n == Neighbors[g][i] IN
         IF n \in seen THEN FindNeighborsLoop(g, i + 1, id, seen)
         ELSE LET r == FindNeighbors(n, id, seen \cup {n}) IN
              IF r.result # NilSlice THEN r
              ELSE FindNeighborsLoop(g, i + 1, id, r.seen)

FindNeighbors(g, id, seen) ==
    IF id = g THEN [result |-> Neighbors[g], seen |-> seen]
    ELSE FindNeighborsLoop(g, 1, id, seen)

RECURSIVE FromLoop(_, _, _, _)
\* The loop of From over the root's Neighbors.
FromLoop(g, i, id, seen) ==
    IF i > Len(Neighbors[g]) THEN NilResult
    ELSE LET n == Neighbors[g][i]
             r == FindNeighbors(n, id, seen \cup {n})
         IN  IF r.result # NilSlice THEN Returned(r.result)
             ELSE FromLoop(g, i + 1, id, r.seen)

\* On the root itself the iterator wraps g.Neighbors, nil or not.
From(g, id) ==
    IF id = g THEN Returned(Neighbors[g]) ELSE FromLoop(g, 1, id, {g})

\* ---- EdgeBetween / edgeBetween -------------------------------------------
RECURSIVE AnchorLoop(_, _, _, _)
\* g is uid or vid: its first neighbour that is uid or vid makes the edge
\* simple.Edge{F: g, T: n}.
AnchorLoop(g, i, uid, vid) ==
    IF i > Len(Neighbors[g]) THEN NilResult
    ELSE LET n == Neighbors[g][i] IN
         IF n = uid \/ n = vid THEN Returned(<<g, n>>)
         ELSE AnchorLoop(g, i + 1, uid, vid)

RECURSIVE edgeBetween(_, _, _, _)
RECURSIVE edgeBetweenLoop(_, _, _, _, _)
edgeBetweenLoop(g, i, uid, vid, seen) ==
    IF i > Len(Neighbors[g]) THEN [edge |-> NilResult, seen |-> seen]
    ELSE LET n == Neighbors[g][i] IN
         IF n \in seen THEN edgeBetweenLoop(g, i + 1, uid, vid, seen)
         ELSE LET r == edgeBetween(n, uid, vid, seen \cup {n}) IN
              IF ~r.edge.nil THEN r
              ELSE edgeBetweenLoop(g, i + 1, uid, vid, r.seen)

edgeBetween(g, uid, vid, seen) ==
    IF uid = g \/ vid = g
    THEN [edge |-> AnchorLoop(g, 1, uid, vid), seen |-> seen]
    ELSE edgeBetweenLoop(g, 1, uid, vid, seen)

RECURSIVE EdgeBetweenLoop(_, _, _, _, _)
\* The loop of EdgeBetween over the root's Neighbors.
EdgeBetweenLoop(g, i, uid, vid, seen) ==
    IF i > Len(Neighbors[g]) THEN NilResult
    ELSE LET n == Neighbors[g][i]
             r == edgeBetween(n, uid, vid, seen \cup {n})
         IN  IF ~r.edge.nil THEN r.edge
             ELSE EdgeBetweenLoop(g, i + 1, uid, vid, r.seen)

EdgeBetween(g, uid, vid) ==
    IF uid = g \/ vid = g THEN AnchorLoop(g, 1, uid, vid)
    ELSE EdgeBetweenLoop(g, 1, uid, vid, {g})

\* ---- the calls a holder of the root makes --------------------------------
NoCall == [op |-> "none", uid |-> Root, vid |-> Root]

\* The AddNeighbor calls made so far, over the nodes 0..k.
RECURSIVE EdgesUpTo(_)
EdgesUpTo(k) == IF k < 0 THEN 0 ELSE Len(Neighbors[k]) + EdgesUpTo(k - 1)

TotalEdges == EdgesUpTo(NumNodes - 1)

\* g.AddNeighbor(n); the graphs built are simple: no self-loop, no link twice.
AddNeighbor(g, n) ==
    /\ TotalEdges < MaxEdges
    /\ g # n
    /\ n \notin NeighborSet(g)
    /\ Neighbors' = AddNeighborTo(Neighbors, g, n)
    /\ call' = NoCall
    /\ ret' = NilResult
    /\ UNCHANGED buildVars

CallNode(id) ==
    /\ call' = [op |-> "Node", uid |-> id, vid |-> id]
    /\ ret' = Node(Root, id)
    /\ UNCHANGED <<Neighbors, buildVars>>

CallNodes ==
    /\ call' = [op |-> "Nodes", uid |-> Root, vid |-> Root]
    /\ ret' = Nodes(Root)
    /\ UNCHANGED <<Neighbors, buildVars>>

CallFrom(id) ==
    /\ call' = [op |-> "From", uid |-> id, vid |-> id]
    /\ ret' = From(Root, id)
    /\ UNCHANGED <<Neighbors, buildVars>>

CallEdgeBetween(uid, vid) ==
    /\ call' = [op |-> "EdgeBetween", uid |-> uid, vid |-> vid]
    /\ ret' = EdgeBetween(Root, uid, vid)
    /\ UNCHANGED <<Neighbors, buildVars>>

(***************************************************************************)
(* The build pipeline                                                      *)
(***************************************************************************)
\* The strings the input is drawn from.
Names == {"A", "B"}
VersionStrings == {"1.0.0", "2.0.0", "latest"}
RangeStrings == {">=1.0.0", "<2.0.0", "not-a-range"}

\* ---- github.com/blang/semver/v4, as CreateEdges uses it ------------------
\* Version{}: what Parse returns beside its error.
ZeroVersion == <<0, 0, 0>>

\* semver2.Parse on the version strings above: "latest" has no
\* Major.Minor.Patch elements, so Parse returns Version{} and an error.
Parse(v) ==
    CASE v = "1.0.0" -> [err |-> FALSE, version |-> <<1, 0, 0>>]
      [] v = "2.0.0" -> [err |-> FALSE, version |-> <<2, 0, 0>>]
      [] OTHER       -> [err |-> TRUE,  version |-> ZeroVersion]

\* Version.Compare: -1, 0 or 1, by major, then minor, then patch.
RECURSIVE CompareFrom(_, _, _)
CompareFrom(a, b, k) ==
    IF k > Len(a) THEN 0
    ELSE IF a[k] < b[k] THEN -1
    ELSE IF a[k] > b[k] THEN 1
    ELSE CompareFrom(a, b, k + 1)

Compare(a, b) == CompareFrom(a, b, 1)

\* semver2.ParseRange on the range strings above: an operator and a version,
\* or an error for a string that holds no version.
ParseRange(r) ==
    CASE r = ">=1.0.0" -> [err |-> FALSE, op |-> ">=", version |-> <<1, 0, 0>>]
      [] r = "<2.0.0"  -> [err |-> FALSE, op |-> "<",  version |-> <<2, 0, 0>>]
      [] OTHER         -> [err |-> TRUE,  op |-> "",   version |-> ZeroVersion]

\* c(newVersion): the Range function ParseRange returned, applied.
InRange(c, v) ==
    CASE c.op = ">=" -> Compare(v, c.version) >= 0
      [] c.op = "<"  -> Compare(v, c.version) < 0
      [] OTHER       -> FALSE

\* ---- ParseJSON -----------------------------------------------------------
\* No record is being decoded.
NoRecord == [Name |-> "", Versions |-> << >>]

Decoding == packageInfo # NoRecord

\* The (name, version) entries and the constraints of a record, of a list.
PairCount(p) == Cardinality(DOMAIN p.Versions)

RECURSIVE DependencyCount(_, _)
DependencyCount(versions, S) ==
    IF S = {} THEN 0
    ELSE LET v == CHOOSE x \in S : TRUE
         IN  Cardinality(DOMAIN versions[v].Dependencies)
                 + DependencyCount(versions, S \ {v})

ConstraintCount(p) == DependencyCount(p.Versions, DOMAIN p.Versions)

RECURSIVE ListPairs(_, _)
ListPairs(pkgs, i) ==
    IF i > Len(pkgs) THEN 0 ELSE PairCount(pkgs[i]) + ListPairs(pkgs, i + 1)

RECURSIVE ListConstraints(_, _)
ListConstraints(pkgs, i) ==
    IF i > Len(pkgs) THEN 0
    ELSE ConstraintCount(pkgs[i]) + ListConstraints(pkgs, i + 1)

TotalPairs == ListPairs(packagesInfo, 1) + PairCount(packageInfo)

TotalConstraints ==
    ListConstraints(packagesInfo, 1) + ConstraintCount(packageInfo)

\* dec.Decode reads the "name" of the next record.
DecodeName(name) ==
    /\ pc = "ParseJSON"
    /\ ~Decoding
    /\ Len(packagesInfo) < MaxPackages
    /\ packageInfo' = [Name |-> name, Versions |-> << >>]
    /\ UNCHANGED <<packagesInfo, m, nameToID, nameToVersion, graphNodes,
                   graphEdges, pc, panicValue, traversalVars>>

\* dec.Decode reads one more key of "versions".
DecodeVersion(version) ==
    /\ pc = "ParseJSON"
    /\ Decoding
    /\ TotalPairs < MaxPairs
    /\ version \notin DOMAIN packageInfo.Versions
    /\ packageInfo' = [packageInfo EXCEPT !.Versions =
                          @ @@ (version :> [Dependencies |-> << >>])]
    /\ UNCHANGED <<packagesInfo, m, nameToID, nameToVersion, graphNodes,
                   graphEdges, pc, panicValue, traversalVars>>

\* dec.Decode reads one more key of a version's "dependencies".
DecodeDependency(version, dependencyName, dependencyVersion) ==
    /\ pc = "ParseJSON"
    /\ Decoding
    /\ TotalConstraints < MaxConstraints
    /\ version \in DOMAIN packageInfo.Versions
    /\ dependencyName \notin DOMAIN packageInfo.Versions[version].Dependencies
    /\ packageInfo' = [packageInfo EXCEPT !.Versions[version].Dependencies =
                          @ @@ (dependencyName :> dependencyVersion)]
    /\ UNCHANGED <<packagesInfo, m, nameToID, nameToVersion, graphNodes,
                   graphEdges, pc, panicValue, traversalVars>>

\* result = append(result, packageInfo)
AppendPackage ==
    /\ pc = "ParseJSON"
    /\ Decoding
    /\ packagesInfo' = Append(packagesInfo, packageInfo)
    /\ packageInfo' = NoRecord
    /\ UNCHANGED <<m, nameToID, nameToVersion, graphNodes, graphEdges, pc,
                   panicValue, traversalVars>>

\* ---- CreateMap -----------------------------------------------------------
\* The orders in which a range loop can visit the keys of a Go map: all.
RECURSIVE Orders(_)
Orders(S) ==
    IF S = {} THEN {<< >>}
    ELSE UNION {{<<x>> \o o : o \in Orders(S \ {x})} : x \in S}

\* NodeInfo(name, version, timestamp); no operation reads the timestamp.
NodeInfo(name, version) ==
    [id |-> name \o "-" \o version, Name |-> name, Version |-> version]

\* The nodeInfo values in the orders the two loops of CreateMap can make
\* them: the records in list order, each record's versions in any order.
RECURSIVE Enumerations(_, _)
Enumerations(pkgs, i) ==
    IF i > Len(pkgs) THEN {<< >>}
    ELSE {[k \in 1 .. Len(o) |-> NodeInfo(pkgs[i].Name, o[k])] \o rest :
             o \in Orders(DOMAIN pkgs[i].Versions),
             rest \in Enumerations(pkgs, i + 1)}

\* m[id] = ...; id++ with id starting at 1.
MapOfIdFromOne(visited) == [id \in 1 .. Len(visited) |-> visited[id]]

\* m[id] = ...; id++ for the values made in this order, id starting at 0.
MapOf(visited) == [id \in 0 .. (Len(visited) - 1) |-> visited[id + 1]]

CreateMap ==
    /\ pc = "ParseJSON"
    /\ ~Decoding
    /\ \E visited \in Enumerations(packagesInfo, 1) : m' = MapOf(visited)
    /\ pc' = "CreateMap"
    /\ UNCHANGED <<packagesInfo, packageInfo, nameToID, nameToVersion,
                   graphNodes, graphEdges, panicValue, traversalVars>>

\* ---- CreateNameToIDMap ---------------------------------------------------
\* newMap[key.id] = id for every entry of m, in any order: of the ids that
\* share a key.id, any one may be written last.
CreateNameToIDMap ==
    /\ pc = "CreateMap"
    /\ LET keys == {m[id].id : id \in DOMAIN m}
       IN  \E newMap \in [keys -> DOMAIN m] :
               /\ \A key \in keys : m[newMap[key]].id = key
               /\ nameToID' = newMap
    /\ pc' = "CreateNameToIDMap"
    /\ UNCHANGED <<packagesInfo, packageInfo, m, nameToVersion, graphNodes,
                   graphEdges, panicValue, traversalVars>>

\* ---- CreateNameToVersionMap ----------------------------------------------
\* The lists newMap[name] can end as: the versions of the records of that
\* name in list order, each record's versions in any order.
RECURSIVE VersionLists(_, _, _)
VersionLists(pkgs, i, name) ==
    IF i > Len(pkgs) THEN {<< >>}
    ELSE IF pkgs[i].Name # name THEN VersionLists(pkgs, i + 1, name)
    ELSE {o \o rest : o \in Orders(DOMAIN pkgs[i].Versions),
                      rest \in VersionLists(pkgs, i + 1, name)}

CreateNameToVersionMap ==
    /\ pc = "CreateNameToIDMap"
    /\ LET keys == {packagesInfo[i].Name : i \in
                       {j \in DOMAIN packagesInfo :
                           DOMAIN packagesInfo[j].Versions # {}}}
           lists == UNION {VersionLists(packagesInfo, 1, name) : name \in keys}
       IN  \E newMap \in [keys -> lists] :
               /\ \A name \in keys :
                      newMap[name] \in VersionLists(packagesInfo, 1, name)
               /\ nameToVersion' = newMap
    /\ pc' = "CreateNameToVersionMap"
    /\ UNCHANGED <<packagesInfo, packageInfo, m, nameToID, graphNodes,
                   graphEdges, panicValue, traversalVars>>

\* ---- CreateGraph ---------------------------------------------------------
CreateGraph ==
    /\ pc = "CreateNameToVersionMap"
    /\ graphNodes' = DOMAIN m
    /\ graphEdges' = {}
    /\ pc' = "CreateGraph"
    /\ UNCHANGED <<packagesInfo, packageInfo, m, nameToID, nameToVersion,
                   panicValue, traversalVars>>

\* ---- CreateEdges ---------------------------------------------------------
\* The constraints of one version record, in any order; id is the index of
\* the record in the input list.
DependencyOrders(id, deps) ==
    {[k \in 1 .. Len(o) |->
         [id |-> id, dependencyName |-> o[k], dependencyVersion |-> deps[o[k]]]] :
     o \in Orders(DOMAIN deps)}

\* The constraints of the version records S of one record, in any order of
\* the version records.
RECURSIVE VersionOrders(_, _, _)
VersionOrders(id, versions, S) ==
    IF S = {} THEN {<< >>}
    ELSE UNION {{d \o rest :
                    d \in DependencyOrders(id, versions[v].Dependencies),
                    rest \in VersionOrders(id, versions, S \ {v})} : v \in S}

\* The orders in which the three outer loops of CreateEdges can visit the
\* constraints of the list: the records in list order.
RECURSIVE ConstraintOrders(_, _)
ConstraintOrders(pkgs, i) ==
    IF i > Len(pkgs) THEN {<< >>}
    ELSE {c \o rest :
             c \in VersionOrders(i - 1, pkgs[i].Versions, DOMAIN pkgs[i].Versions),
             rest \in ConstraintOrders(pkgs, i + 1)}

NoPanic == ""

\* graph.SetEdge(simple.Edge{F: graph.Node(from), T: graph.Node(to)}):
\* graph.Node gives nil for an id the graph does not hold, and SetEdge
\* panics on a nil endpoint and on an edge from a node to itself.
SetEdge(edges, from, to) ==
    IF from \notin graphNodes \/ to \notin graphNodes
    THEN [edges |-> edges, panic |-> "nil pointer dereference"]
    ELSE IF from = to
    THEN [edges |-> edges, panic |-> "simple: adding self edge"]
    ELSE [edges |-> edges \cup {<<from, to>>}, panic |-> NoPanic]

\* nameToID[key]; a missing key reads as the zero value.
Lookup(key) == IF key \in DOMAIN nameToID THEN nameToID[key] ELSE 0

\* nameToVersion[dependencyName]; a missing key reads as a nil slice.
KnownVersions(dependencyName) ==
    IF dependencyName \in DOMAIN nameToVersion
    THEN nameToVersion[dependencyName] ELSE << >>

\* The innermost loop of CreateEdges, from index j of the known versions on.
RECURSIVE MatchLoop(_, _, _, _)
MatchLoop(con, c, j, edges) ==
    LET known == KnownVersions(con.dependencyName) IN
    IF j > Len(known) THEN [edges |-> edges, panic |-> NoPanic]
    ELSE LET v == known[j]
             newVersion == Parse(v).version          \* the error is dropped
         IN  IF InRange(c, newVersion)
             THEN LET set == SetEdge(edges, con.id,
                                     Lookup(con.dependencyName \o "-" \o v))
                  IN  IF set.panic # NoPanic THEN set
                      ELSE MatchLoop(con, c, j + 1, set.edges)
             ELSE MatchLoop(con, c, j + 1, edges)

\* The body of the three outer loops, for the constraints in this order.
RECURSIVE ConstraintLoop(_, _, _)
ConstraintLoop(order, k, edges) ==
    IF k > Len(order) THEN [edges |-> edges, panic |-> NoPanic]
    ELSE LET c == ParseRange(order[k].dependencyVersion) IN
         IF c.err THEN [edges |-> edges, panic |-> "ParseRange error"]
         ELSE LET r == MatchLoop(order[k], c, 1, edges) IN
              IF r.panic # NoPanic THEN r
              ELSE ConstraintLoop(order, k + 1, r.edges)

CreateEdges ==
    /\ pc = "CreateGraph"
    /\ \E order \in ConstraintOrders(packagesInfo, 1) :
           LET r == ConstraintLoop(order, 1, graphEdges) IN
           /\ graphEdges' = r.edges
           /\ panicValue' = r.panic
           /\ pc' = IF r.panic = NoPanic THEN "CreateEdges" ELSE "panic"
    /\ UNCHANGED <<packagesInfo, packageInfo, m, nameToID, nameToVersion,
                   graphNodes, traversalVars>>

InitBuildIdle ==
    /\ packagesInfo = << >>
    /\ packageInfo = NoRecord
    /\ m = << >>
    /\ nameToID = << >>
    /\ nameToVersion = << >>
    /\ graphNodes = {}
    /\ graphEdges = {}
    /\ pc = "ParseJSON"
    /\ panicValue = NoPanic

InitTraversalIdle ==
    /\ Neighbors = [g \in NodeIds |-> NewGraphNode]
    /\ call = NoCall
    /\ ret = NilResult

InitBuild == InitBuildIdle /\ InitTraversalIdle

NextBuild ==
    \/ \E name \in Names : DecodeName(name)
    \/ \E version \in VersionStrings : DecodeVersion(version)
    \/ \E version \in VersionStrings, dependencyName \in Names,
          dependencyVersion \in RangeStrings :
          DecodeDependency(version, dependencyName, dependencyVersion)
    \/ AppendPackage
    \/ CreateMap
    \/ CreateNameToIDMap
    \/ CreateNameToVersionMap
    \/ CreateGraph
    \/ CreateEdges

SpecBuild == InitBuild /\ [][NextBuild]_vars

\* The identity index alone: CreateMap, CreateNameToIDMap,
\* CreateNameToVersionMap and CreateGraph read no Dependencies, so they are
\* run on records that declare none.
NextIndex ==
    \/ \E name \in Names : DecodeName(name)
    \/ \E version \in VersionStrings : DecodeVersion(version)
    \/ AppendPackage
    \/ CreateMap
    \/ CreateNameToIDMap
    \/ CreateNameToVersionMap
    \/ CreateGraph

SpecIndex == InitBuild /\ [][NextIndex]_vars

InitTraversal == InitTraversalIdle /\ InitBuildIdle

NextTraversal ==
    \/ \E g \in NodeIds, n \in NodeIds : AddNeighbor(g, n)
    \/ \E id \in QueryIds : CallNode(id)
    \/ CallNodes
    \/ \E id \in QueryIds : CallFrom(id)
    \/ \E uid \in QueryIds, vid \in QueryIds : CallEdgeBetween(uid, vid)

SpecTraversal == InitTraversal /\ [][NextTraversal]_vars

(***************************************************************************)
(* Properties of the implicit graph                                        *)
(***************************************************************************)
RECURSIVE ReachFrom(_, _)
ReachFrom(found, frontier) ==
    IF frontier = {} THEN found
    ELSE LET next == UNION {NeighborSet(g) : g \in frontier} \ found
         IN  ReachFrom(found \cup next, next)

\* The root and every node reachable from it by following Neighbors links.
Reachable == ReachFrom({Root}, {Root})

ElementsOf(s) == {s[i] : i \in 1 .. Len(s)}
NoRepeats(s) == \A i, j \in 1 .. Len(s) : s[i] = s[j] => i = j

\* C3: Nodes() returns the root first and then every node reachable from the
\* root, each exactly once, and no node that is not reachable.
C3_NodesReturnsReachableOnce ==
    call.op = "Nodes" =>
        /\ ~ret.nil
        /\ Len(ret.nodes) >= 1
        /\ ret.nodes[1] = Root
        /\ ElementsOf(ret.nodes) = Reachable
        /\ NoRepeats(ret.nodes)

\* C4: every traversal call made on the root (Node, Nodes, From, EdgeBetween)
\* returns, on every neighbour graph, cyclic ones included.
C4_TraversalTerminates ==
    call.op \in {"Node", "Nodes", "From", "EdgeBetween"} => ~ret.overflow

\* C5: for every id of a node reachable from the root, Node(id) returns the
\* node whose ID() equals id.
C5_NodeReturnsNodeWithId ==
    (call.op = "Node" /\ call.uid \in Reachable) => ret = Returned(<<call.uid>>)

\* An edge touches u and v: among the root and the nodes reachable from it,
\* u has v in its Neighbors list or v has u in its Neighbors list.
Touches(u, v) ==
    /\ u \in Reachable
    /\ v \in Reachable
    /\ (v \in NeighborSet(u) \/ u \in NeighborSet(v))

\* C6: EdgeBetween(u, v) returns an edge exactly when an edge touches u and v.
C6_EdgeBetweenIsSymmetricTest ==
    call.op = "EdgeBetween" => (~ret.nil <=> Touches(call.uid, call.vid))

\* C8: for every id of a node reachable from the root, From(id) yields that
\* node's Neighbors list; for a node without neighbours this is an empty
\* sequence and not the nil that stands for 'node not found'.
C8_FromReturnsStoredNeighbors ==
    (call.op = "From" /\ call.uid \in Reachable) =>
        (~ret.nil /\ ret.nodes = Neighbors[call.uid])

(***************************************************************************)
(* Properties of the build pipeline                                        *)
(***************************************************************************)
\* The (package name, version) pairs of the input list.
InputPairs ==
    UNION {{<<packagesInfo[i].Name, v>> : v \in DOMAIN packagesInfo[i].Versions} :
           i \in DOMAIN packagesInfo}

\* No pair is listed twice: the listed pairs are as many as the distinct ones.
NoDuplicatePairs == ListPairs(packagesInfo, 1) = Cardinality(InputPairs)

\* The pair CreateMap assigned to an id.
PairOf(id) == <<m[id].Name, m[id].Version>>

MapBuilt ==
    pc \in {"CreateMap", "CreateNameToIDMap", "CreateNameToVersionMap",
            "CreateGraph", "CreateEdges", "panic"}
IndexBuilt ==
    pc \in {"CreateNameToIDMap", "CreateNameToVersionMap", "CreateGraph",
            "CreateEdges", "panic"}
GraphBuilt == pc \in {"CreateGraph", "CreateEdges", "panic"}

OneIdPerPair == \A i, j \in DOMAIN m : PairOf(i) = PairOf(j) => i = j

\* range matches version under semantic-versioning rules: both parse, and
\* the version lies in the range.
Matches(range, version) ==
    LET c == ParseRange(range)
        p == Parse(version)
    IN  ~c.err /\ ~p.err /\ InRange(c, p.version)

\* The pair of id u declares a dependency (depName, range) such that the
\* pair of id v is a known version of depName and range matches it.
Declares(u, v) ==
    \E i \in DOMAIN packagesInfo :
        /\ packagesInfo[i].Name = m[u].Name
        /\ m[u].Version \in DOMAIN packagesInfo[i].Versions
        /\ LET deps == packagesInfo[i].Versions[m[u].Version].Dependencies
           IN  /\ m[v].Name \in DOMAIN deps
               /\ Matches(deps[m[v].Name], m[v].Version)

\* The constraints of the input whose range string does not parse.
MalformedConstraints ==
    UNION {UNION {{<<i, v, d>> :
                      d \in {x \in DOMAIN packagesInfo[i].Versions[v].Dependencies :
                                ParseRange(packagesInfo[i].Versions[v].Dependencies[x]).err}} :
                  v \in DOMAIN packagesInfo[i].Versions} :
           i \in DOMAIN packagesInfo}

\* An input the claims about edges cover without any doubt: every version
\* string and every range string parses, no pair is listed twice, and no
\* record depends on its own name.
WellFormedInput ==
    /\ NoDuplicatePairs
    /\ MalformedConstraints = {}
    /\ \A i \in DOMAIN packagesInfo :
           \A v \in DOMAIN packagesInfo[i].Versions :
               /\ ~Parse(v).err
               /\ packagesInfo[i].Name
                      \notin DOMAIN packagesInfo[i].Versions[v].Dependencies

\* C1: after the build of a well-formed input, the edge u->v is in the graph
\* if and only if the pair of id u declares a dependency (depName, range)
\* such that the pair of id v is a known version of depName and range
\* matches it.
C1_EdgeIffDeclaredAndMatched ==
    (pc = "CreateEdges" /\ WellFormedInput) =>
        \A u, v \in DOMAIN m : (<<u, v>> \in graphEdges) <=> Declares(u, v)

\* C2: for an input list of N distinct (name, version) pairs, CreateMap
\* makes a map whose keys are exactly 0..N-1, one id per pair and one pair
\* per id, and CreateGraph makes a graph of exactly the N nodes 0..N-1.
C2_DistinctPairsGetIds ==
    NoDuplicatePairs =>
        LET N == Cardinality(InputPairs) IN
        /\ MapBuilt =>
               /\ DOMAIN m = 0 .. (N - 1)
               /\ OneIdPerPair
               /\ {PairOf(id) : id \in DOMAIN m} = InputPairs
        /\ GraphBuilt => graphNodes = 0 .. (N - 1)

\* C2's case: two records, one of them with two versions, and the graph made.
C2_Witness ==
    /\ pc = "CreateGraph"
    /\ NoDuplicatePairs
    /\ Len(packagesInfo) = 2
    /\ Cardinality(InputPairs) = 3

\* C7: when exactly one constraint of the input has a range string that
\* does not parse, CreateEdges completes and every edge the well-formed
\* constraints require is in the graph.
C7_MalformedRangeSkipped ==
    (pc \in {"CreateEdges", "panic"} /\ Cardinality(MalformedConstraints) = 1) =>
        /\ pc = "CreateEdges"
        /\ \A u, v \in DOMAIN m : Declares(u, v) => <<u, v>> \in graphEdges

\* C9: when the input lists a (name, version) pair more than once, the pair
\* still has one id, ids and pairs stay in bijection through nameToID, and
\* the graph has one node per distinct pair.
C9_DuplicatePairOneId ==
    ~NoDuplicatePairs =>
        /\ MapBuilt => OneIdPerPair
        /\ IndexBuilt => \A id \in DOMAIN m : nameToID[m[id].id] = id
        /\ GraphBuilt => Cardinality(graphNodes) = Cardinality(InputPairs)

\* C10: after a completed build no edge of the graph ends at the node of a
\* version whose string does not parse as a semantic version, whatever the
\* range of the constraint.
C10_MalformedVersionGetsNoEdge ==
    pc = "CreateEdges" => \A e \in graphEdges : ~Parse(m[e[2]].Version).err

====
